---- MODULE Spec2Model ----
(***************************************************************************)
(* GELFForwarder (graylogHUB.py): a TCP server that frames concatenated    *)
(* JSON objects out of each connection's byte stream and forwards every    *)
(* framed record to one HTTP endpoint, with retries and shared counters.   *)
(*                                                                         *)
(* Bytes and characters are one-character strings; the two bytes of the    *)
(* UTF-8 encoding of U+00E9 are "C3" and "A9", the character is "e'".      *)
(* Input is restricted to Alphabet: json.loads is modelled for objects,    *)
(* strings without escapes, unsigned integers and blanks, which is all a   *)
(* text over Alphabet can contain.                                         *)
(***************************************************************************)
EXTENDS Integers, Sequences, FiniteSets, TLC

----------------------------------------------------------------------------
(* Text helpers: Python slices, str.find and bytes.decode('utf-8').        *)

QT == "\""
EACUTE == "e'"
WS == {" "}
Digits == {"0", "1", "2"}
Alphabet == {"{", "}", QT, ":", ",", " ", "a", "b", "x", EACUTE} \cup Digits

Min(a, b) == IF a < b THEN a ELSE b

\* s[i:] and s[:i] with 0-based Python offsets
Drop(s, i) == SubSeq(s, i + 1, Len(s))
Take(s, i) == SubSeq(s, 1, Min(i, Len(s)))

\* s[i:i+1] with a 1-based index: the character, or "" past the end
At(s, i) == IF i >= 1 /\ i <= Len(s) THEN s[i] ELSE ""

\* str.find('{'): 0-based offset of the first "{", or -1
Find(s) ==
    IF \E i \in 1..Len(s) : s[i] = "{"
    THEN (CHOOSE i \in 1..Len(s) : s[i] = "{" /\ \A j \in 1..(i - 1) : s[j] # "{") - 1
    ELSE -1

RECURSIVE Utf8Decode(_)
\* bytes.decode('utf-8'), strict: a lead byte needs its continuation byte in
\* the same chunk; a lone continuation byte is an invalid start byte.
Utf8Decode(bs) ==
    IF bs = <<>> THEN [ok |-> TRUE, chars |-> <<>>]
    ELSE IF bs[1] = "C3"
    THEN IF Len(bs) >= 2 /\ bs[2] = "A9"
         THEN LET r == Utf8Decode(Drop(bs, 2))
              IN  [ok |-> r.ok, chars |-> IF r.ok THEN <<EACUTE>> \o r.chars ELSE <<>>]
         ELSE [ok |-> FALSE, chars |-> <<>>]
    ELSE IF bs[1] = "A9" THEN [ok |-> FALSE, chars |-> <<>>]
    ELSE LET r == Utf8Decode(Drop(bs, 1))
         IN  [ok |-> r.ok, chars |-> IF r.ok THEN <<bs[1]>> \o r.chars ELSE <<>>]

RECURSIVE Utf8Encode(_)
\* str.encode('utf-8'), what a producer does to a record before writing it
Utf8Encode(cs) ==
    IF cs = <<>> THEN <<>>
    ELSE (IF cs[1] = EACUTE THEN <<"C3", "A9">> ELSE <<cs[1]>>) \o Utf8Encode(Drop(cs, 1))

----------------------------------------------------------------------------
(* json.loads on a text over Alphabet.  A scan result is ok with the       *)
(* 1-based index after the value, or an error at an index; eof tells an    *)
(* error raised because the text ended (truncated input) from one raised   *)
(* at a character that no continuation can repair.                         *)

ScanOk(e) == [ok |-> TRUE, end |-> e, eof |-> FALSE]
ScanErr(s, e) == [ok |-> FALSE, end |-> e, eof |-> e > Len(s)]

RECURSIVE SkipWs(_, _)
\* WHITESPACE.match(s, end).end()
SkipWs(s, i) == IF At(s, i) \in WS THEN SkipWs(s, i + 1) ELSE i

RECURSIVE ScanString(_, _)
\* scanstring(s, end): end is the index after the opening quote
ScanString(s, i) ==
    IF i > Len(s) THEN [ok |-> FALSE, end |-> i, eof |-> TRUE]
    ELSE IF s[i] = QT THEN ScanOk(i + 1)
    ELSE ScanString(s, i + 1)

RECURSIVE ScanDigits(_, _)
ScanDigits(s, i) == IF At(s, i) \in Digits THEN ScanDigits(s, i + 1) ELSE i

\* NUMBER_RE: (0|[1-9]\d*), no sign, fraction or exponent in Alphabet
ScanNumber(s, i) == IF s[i] = "0" THEN i + 1 ELSE ScanDigits(s, i)

RECURSIVE ScanOnce(_, _)
RECURSIVE ObjKey(_, _)
RECURSIVE JSONObject(_, _)

\* one key/value pair and what follows it; i is the index after the key's
\* opening quote
ObjKey(s, i) ==
    LET k == ScanString(s, i) IN
    IF ~k.ok THEN k
    ELSE LET e1 == IF At(s, k.end) # ":" THEN SkipWs(s, k.end) ELSE k.end IN
         IF At(s, e1) # ":" THEN ScanErr(s, e1)
         ELSE LET v == ScanOnce(s, SkipWs(s, e1 + 1)) IN
              IF ~v.ok THEN v
              ELSE LET e3 == SkipWs(s, v.end)
                       nextchar == At(s, e3)
                   IN  IF nextchar = "}" THEN ScanOk(e3 + 1)
                       ELSE IF nextchar # "," THEN ScanErr(s, e3)
                       ELSE LET e4 == SkipWs(s, e3 + 1) IN
                            IF At(s, e4) # QT THEN ScanErr(s, e4)
                            ELSE ObjKey(s, e4 + 1)

\* JSONObject(s_and_end, ...): i is the index after "{"
JSONObject(s, i) ==
    IF At(s, i) = QT THEN ObjKey(s, i + 1)
    ELSE LET e1 == SkipWs(s, i)
             nextchar == At(s, e1)
         IN  IF nextchar = "}" THEN ScanOk(e1 + 1)
             ELSE IF nextchar # QT THEN ScanErr(s, e1)
             ELSE ObjKey(s, e1 + 1)

\* scan_once(string, idx)
ScanOnce(s, i) ==
    IF i > Len(s) THEN ScanErr(s, i)
    ELSE IF s[i] = QT THEN ScanString(s, i + 1)
    ELSE IF s[i] = "{" THEN JSONObject(s, i + 1)
    ELSE IF s[i] \in Digits THEN ScanOk(ScanNumber(s, i))
    ELSE ScanErr(s, i)

\* json.loads(s): the value, or the JSONDecodeError it raises.  msg is the
\* error's message, pos its 0-based character offset.
Loads(s) ==
    LET v == ScanOnce(s, SkipWs(s, 1)) IN
    IF ~v.ok
    THEN [ok |-> FALSE, msg |-> "Expecting", pos |-> v.end - 1, eof |-> v.eof]
    ELSE LET end == SkipWs(s, v.end) IN
         IF end # Len(s) + 1
         THEN [ok |-> FALSE, msg |-> "Extra data", pos |-> end - 1, eof |-> FALSE]
         ELSE [ok |-> TRUE, msg |-> "", pos |-> 0, eof |-> FALSE]

\* str(e) of a JSONDecodeError, "<msg>: line 1 column <pos+1> (char <pos>)",
\* as the fields the format prints (there is no newline in Alphabet)
ErrStr(e) == [msg |-> e.msg, lineno |-> 1, colno |-> e.pos + 1, char |-> e.pos]

\* "Extra data" in str(e)
HasExtraData(str) == str.msg = "Extra data"

\* the column (1-based) taken for the character offset
CharPos_column(str) == str.colno

\* int(str(e).split('char ')[-1].strip(')'))
CharPos(str) == str.char

----------------------------------------------------------------------------
(* Configuration (GELFForwarder.__init__ and forward_to_function).         *)

buffer_size == 8192
\* --max-message-size, set to a few characters instead of its default 1 MiB
max_message_size == 8
metrics_interval == 60
retries == 3
retry_delay == 1

\* what one requests.post can give: a response status, or NetFail for a
\* requests.RequestException (no response was received)
NetFail == 0
Statuses == {200, 201, 202, 400}

----------------------------------------------------------------------------
(* Bounds of the model and what producers write.                           *)

MaxConns == 2
MaxPieces == 2
MaxWire == 17
MaxTime == 66
MaxFails == 3
FewFails == 1

Conns == 1..MaxConns
\* the connections of the specification with one more client, which only
\* connects and disconnects
Slots == 1..(MaxConns + 1)

Rec_a == <<"{", QT, "a", QT, ":", "1", "}">>
Rec_b == <<"{", QT, "b", QT, ":", "2", "}">>
Rec_e == <<"{", QT, EACUTE, QT, ":", "1", "}">>
Rec_long == <<"{", QT, "a", QT, ":", QT, "b", "b", QT, "}">>
Bad_x == <<"{", "x", "}">>
Noise == <<"a", " ">>
Rec_0 == <<"{", "}">>

\* the well-formed records a producer serializes
Records == {Rec_a, Rec_b, Rec_e, Rec_long}
\* what a producer may write between records: malformed text, noise
Pieces == Records \cup {Bad_x, Noise}

RECURSIVE Concat(_)
Concat(ps) == IF ps = <<>> THEN <<>> ELSE ps[1] \o Concat(Tail(ps))

\* byte streams made of up to MaxPieces pieces, of MaxWire characters at most
PieceSeqs ==
    {ps \in UNION {[1..n -> Pieces] : n \in 1..MaxPieces} : Len(Concat(ps)) <= MaxWire}
FramerWires == {Utf8Encode(Concat(ps)) : ps \in PieceSeqs}
\* byte streams of the forwarding and concurrency specifications
ForwardWires == {Utf8Encode(Rec_a), Utf8Encode(Rec_a \o Rec_b)}
SmallWires == {Utf8Encode(Rec_0)}

----------------------------------------------------------------------------
(* State.                                                                  *)

VARIABLES
    server_socket,       \* "none", "listening", "closed"
    main,                \* the main thread: "init", "accept", "shutdown", "exited"
    messages_processed, messages_failed, connections_handled,
    last_metrics_time,
    now,                 \* time.time()
    pc,                  \* per connection: where its handler thread is
    pending,             \* per connection: bytes written by the peer, not yet read
    buffer,              \* handle_client's local, a text
    message,             \* process_message's argument
    after,               \* what handle_client does when process_message returns
    attempt,             \* forward_to_function's loop variable
    wake,                \* when the current time.sleep ends
    reg,                 \* the value a thread has read and not yet written back
    inc,                 \* the counter being incremented, and whether log_metrics follows
    \* what an observer of the process can record
    wire,                \* per connection: all the bytes its peer writes
    emitted,             \* per connection: the arguments of process_message, in call order
    forwarded,           \* per connection: the messages given to forward_to_function
    call,                \* per connection: attempts and sleeps of the forward call of
                         \* the dispatch in progress
    outcome,             \* per connection: how the dispatch in progress ends
    reason,              \* per connection: why the handler left its read loop
    accepted,            \* number of accepted connections
    fails,               \* number of requests that got no response
    dispatched,          \* per connection: number of process_message calls that returned
    pass,                \* per connection: the buffer as the last chunk left it, and
                         \* how many messages had been emitted before that chunk
    snapshots            \* the metrics reports logged, with the resets done

shared == <<messages_processed, messages_failed, connections_handled, last_metrics_time>>
locals == <<pending, buffer, message, after, attempt, wake, reg, inc>>
ghosts == <<wire, emitted, forwarded, call, outcome, reason, accepted, fails, dispatched, pass,
           snapshots>>
vars == <<server_socket, main, now, pc, shared, locals, ghosts>>

Init ==
    /\ server_socket = "none"
    /\ main = "init"
    /\ messages_processed = 0
    /\ messages_failed = 0
    /\ connections_handled = 0
    /\ now = 0
    /\ last_metrics_time = 0
    /\ pc = [c \in Slots |-> "idle"]
    /\ pending = [c \in Slots |-> <<>>]
    /\ buffer = [c \in Slots |-> <<>>]
    /\ message = [c \in Slots |-> <<>>]
    /\ after = [c \in Slots |-> [kind |-> "none", cut |-> 0]]
    /\ attempt = [c \in Slots |-> 0]
    /\ wake = [c \in Slots |-> 0]
    /\ reg = [c \in Slots |-> 0]
    /\ inc = [c \in Slots |-> [ctr |-> "none", log |-> FALSE]]
    /\ wire = [c \in Slots |-> <<>>]
    /\ emitted = [c \in Slots |-> <<>>]
    /\ forwarded = [c \in Slots |-> <<>>]
    /\ call = [c \in Slots |-> <<>>]
    /\ outcome = [c \in Slots |-> "none"]
    /\ reason = [c \in Slots |-> "none"]
    /\ accepted = 0
    /\ fails = 0
    /\ dispatched = [c \in Slots |-> 0]
    /\ pass = [c \in Slots |-> [buf |-> <<>>, n |-> 0]]
    /\ snapshots = <<>>

----------------------------------------------------------------------------
(* The pure decisions of the handlers.                                     *)

\* DecodeStep clearing the buffer on every JSONDecodeError that is not
\* "Extra data", truncated input included
DecodeStep_discard(buf) ==
    LET start == Find(buf) IN
    IF start = -1 THEN [kind |-> "stop", msg |-> <<>>, cut |-> 0]
    ELSE LET e == Loads(Drop(buf, start)) IN
         IF e.ok THEN [kind |-> "clear", msg |-> Drop(buf, start), cut |-> 0]
         ELSE IF HasExtraData(ErrStr(e))
         THEN LET pos == CharPos(ErrStr(e))
              IN  [kind |-> "rest", msg |-> Take(Drop(buf, start), pos), cut |-> start + pos]
         ELSE [kind |-> "stop", msg |-> <<>>, cut |-> 0]

\* DecodeStep leaving the buffer as it is when it holds no "{"
DecodeStep_keep(buf) ==
    LET start == Find(buf) IN
    IF start = -1 THEN [kind |-> "wait", msg |-> <<>>, cut |-> 0]
    ELSE LET e == Loads(Drop(buf, start)) IN
         IF e.ok THEN [kind |-> "clear", msg |-> Drop(buf, start), cut |-> 0]
         ELSE IF HasExtraData(ErrStr(e))
         THEN LET pos == CharPos(ErrStr(e))
              IN  [kind |-> "rest", msg |-> Take(Drop(buf, start), pos), cut |-> start + pos]
         ELSE [kind |-> "wait", msg |-> <<>>, cut |-> 0]

\* DecodeStep handing over the buffer from its beginning instead of from its
\* first "{"
DecodeStep_unsliced(buf) ==
    LET start == Find(buf) IN
    IF start = -1 THEN [kind |-> "stop", msg |-> <<>>, cut |-> 0]
    ELSE LET e == Loads(Drop(buf, start)) IN
         IF e.ok THEN [kind |-> "clear", msg |-> buf, cut |-> 0]
         ELSE IF HasExtraData(ErrStr(e))
         THEN LET pos == CharPos(ErrStr(e))
              IN  [kind |-> "rest", msg |-> Take(buf, pos), cut |-> start + pos]
         ELSE [kind |-> "wait", msg |-> <<>>, cut |-> 0]

\* One pass of the inner `while True` of handle_client over the buffer:
\* what is handed to process_message, and what the handler does next.
\*   stop  - buffer = "" and break (no "{")
\*   clear - process_message(buffer[start:]); buffer = ""; break
\*   rest  - process_message(buffer[start:start+pos]); buffer = buffer[start+pos:]; loop
\*   wait  - break with the buffer as it is (any other JSONDecodeError)
DecodeStep(buf) ==
    LET start == Find(buf) IN
    IF start = -1 THEN [kind |-> "stop", msg |-> <<>>, cut |-> 0]
    ELSE LET e == Loads(Drop(buf, start)) IN
         IF e.ok THEN [kind |-> "clear", msg |-> Drop(buf, start), cut |-> 0]
         ELSE IF HasExtraData(ErrStr(e))
         THEN LET pos == CharPos(ErrStr(e))
              IN  [kind |-> "rest", msg |-> Take(Drop(buf, start), pos), cut |-> start + pos]
         ELSE [kind |-> "wait", msg |-> <<>>, cut |-> 0]

\* ForwardStep sleeping retry_delay * attempt
ForwardStep_delay(att, res) ==
    IF res # NetFail THEN [next |-> "return", delay |-> 0]
    ELSE IF att = retries - 1 THEN [next |-> "raise", delay |-> 0]
    ELSE [next |-> "sleep", delay |-> retry_delay * att]

\* One iteration of the `for attempt in range(retries)` loop of
\* forward_to_function, given what requests.post did.
ForwardStep(att, res) ==
    IF res # NetFail THEN [next |-> "return", delay |-> 0]
    ELSE IF att = retries - 1 THEN [next |-> "raise", delay |-> 0]
    ELSE [next |-> "sleep", delay |-> retry_delay * (att + 1)]

\* Classify taking 200 alone for a success
Classify_only200(status) == IF status # 200 THEN "Rejected" ELSE "Delivered"

\* process_message on a response: `status_code not in (200, 201, 202)`
Classify(status) == IF status \notin {200, 201, 202} THEN "Rejected" ELSE "Delivered"

\* CounterOf counting every response as processed, whatever its status
CounterOf_anyResponse(out) ==
    IF out \in {"Delivered", "Rejected"} THEN [ctr |-> "processed", log |-> TRUE]
    ELSE [ctr |-> "failed", log |-> FALSE]

\* the counter a dispatch outcome increments, and whether log_metrics is
\* called after it (only on the path that got a response)
CounterOf(out) ==
    IF out = "Delivered" THEN [ctr |-> "processed", log |-> TRUE]
    ELSE IF out = "Rejected" THEN [ctr |-> "failed", log |-> TRUE]
    ELSE [ctr |-> "failed", log |-> FALSE]

\* log_metrics: `elapsed >= self.metrics_interval`
IntervalElapsed(current_time, last) == current_time - last >= metrics_interval

----------------------------------------------------------------------------
(* The main thread: start(), the accept loop, KeyboardInterrupt.           *)

Start ==
    /\ main = "init"
    /\ main' = "accept"
    /\ server_socket' = "listening"
    /\ UNCHANGED <<now, pc, shared, locals, ghosts>>

\* Accept in a server that handles a connection inside the accept loop: no
\* connection is accepted while a handler runs
Accept_inline(c, W) ==
    /\ main = "accept"
    /\ server_socket = "listening"
    /\ pc[c] = "idle"
    /\ c = accepted + 1
    /\ \A o \in Slots : pc[o] \in {"idle", "closed"}
    /\ \E w \in W :
         /\ wire' = [wire EXCEPT ![c] = w]
         /\ pending' = [pending EXCEPT ![c] = w]
    /\ pc' = [pc EXCEPT ![c] = "start"]
    /\ accepted' = accepted + 1
    /\ UNCHANGED <<server_socket, main, now, shared>>
    /\ UNCHANGED <<buffer, message, after, attempt, wake, reg, inc>>
    /\ UNCHANGED <<emitted, forwarded, call, outcome, reason, fails, dispatched, pass, snapshots>>

\* accept() returns a connection and a daemon thread is started for it; the
\* k-th accepted connection is connection k, its peer writes the bytes w
Accept(c, W) ==
    /\ main = "accept"
    /\ server_socket = "listening"
    /\ pc[c] = "idle"
    /\ c = accepted + 1
    /\ \E w \in W :
         /\ wire' = [wire EXCEPT ![c] = w]
         /\ pending' = [pending EXCEPT ![c] = w]
    /\ pc' = [pc EXCEPT ![c] = "start"]
    /\ accepted' = accepted + 1
    /\ UNCHANGED <<server_socket, main, now, shared>>
    /\ UNCHANGED <<buffer, message, after, attempt, wake, reg, inc>>
    /\ UNCHANGED <<emitted, forwarded, call, outcome, reason, fails, dispatched, pass, snapshots>>

\* KeyboardInterrupt leaves start(); __main__ calls shutdown()
Interrupt ==
    /\ main = "accept"
    /\ main' = "shutdown"
    /\ server_socket' = "closed"
    /\ UNCHANGED <<now, pc, shared, locals, ghosts>>

Running(c) == pc[c] \notin {"idle", "closed", "killed"}

\* the main thread ends: the interpreter exits without joining the daemon
\* threads, which stop wherever they are
Exit ==
    /\ main = "shutdown"
    /\ main' = "exited"
    /\ pc' = [c \in Slots |-> IF Running(c) THEN "killed" ELSE pc[c]]
    /\ UNCHANGED <<server_socket, now, shared, locals, ghosts>>

----------------------------------------------------------------------------
(* handle_client.                                                          *)

\* buffer = ""; settimeout; the read half of connections_handled += 1
HandleStart(c) ==
    /\ pc[c] = "start"
    /\ buffer' = [buffer EXCEPT ![c] = <<>>]
    /\ reg' = [reg EXCEPT ![c] = connections_handled]
    /\ pc' = [pc EXCEPT ![c] = "count"]
    /\ UNCHANGED <<server_socket, main, now, shared, ghosts>>
    /\ UNCHANGED <<pending, message, after, attempt, wake, inc>>

\* the write half of connections_handled += 1
HandleCount(c) ==
    /\ pc[c] = "count"
    /\ connections_handled' = reg[c] + 1
    /\ pc' = [pc EXCEPT ![c] = "recv"]
    /\ UNCHANGED <<server_socket, main, now, locals, ghosts>>
    /\ UNCHANGED <<messages_processed, messages_failed, last_metrics_time>>

\* recv returns n >= 1 bytes; decode; append.  A UnicodeDecodeError is
\* caught by the outer except, which leaves the loop and closes the socket.
RecvData(c) ==
    /\ pc[c] = "recv"
    /\ pending[c] # <<>>
    /\ \E n \in 1..Min(buffer_size, Len(pending[c])) :
         LET decoded_data == Utf8Decode(Take(pending[c], n)) IN
         /\ pending' = [pending EXCEPT ![c] = Drop(pending[c], n)]
         /\ IF decoded_data.ok
            THEN /\ buffer' = [buffer EXCEPT ![c] = buffer[c] \o decoded_data.chars]
                 /\ pass' = [pass EXCEPT ![c] = [buf |-> buffer[c] \o decoded_data.chars,
                                                 n |-> Len(emitted[c])]]
                 /\ pc' = [pc EXCEPT ![c] = "decode"]
                 /\ UNCHANGED reason
            ELSE /\ pc' = [pc EXCEPT ![c] = "closed"]
                 /\ reason' = [reason EXCEPT ![c] = "decode"]
                 /\ UNCHANGED <<buffer, pass>>
    /\ UNCHANGED <<server_socket, main, now, shared>>
    /\ UNCHANGED <<message, after, attempt, wake, reg, inc>>
    /\ UNCHANGED <<wire, emitted, forwarded, call, outcome, accepted, fails, dispatched, snapshots>>

\* RecvEnd with the failure of recv reaching the accept loop: the listening
\* socket is closed with the connection's
RecvEnd_stopsAccept(c) ==
    /\ pc[c] = "recv"
    /\ \E r \in {"eof", "timeout", "error"} :
         /\ r = "eof" => pending[c] = <<>>
         /\ reason' = [reason EXCEPT ![c] = r]
    /\ pc' = [pc EXCEPT ![c] = "closed"]
    /\ server_socket' = "closed"
    /\ UNCHANGED <<main, now, shared, locals>>
    /\ UNCHANGED <<wire, emitted, forwarded, call, outcome, accepted, fails, dispatched, pass, snapshots>>

\* recv returns b'' (the peer closed, after all it wrote was read), or raises
\* socket.timeout or another socket error: leave the loop, close the socket
RecvEnd(c) ==
    /\ pc[c] = "recv"
    /\ \E r \in {"eof", "timeout", "error"} :
         /\ r = "eof" => pending[c] = <<>>
         /\ reason' = [reason EXCEPT ![c] = r]
    /\ pc' = [pc EXCEPT ![c] = "closed"]
    /\ UNCHANGED <<server_socket, main, now, shared, locals>>
    /\ UNCHANGED <<wire, emitted, forwarded, call, outcome, accepted, fails, dispatched, pass, snapshots>>

\* Decode handing the message over without waiting for process_message to
\* return: the buffer is assigned and the loop goes on at once
Decode_detached(c) ==
    /\ pc[c] = "decode"
    /\ LET d == DecodeStep(buffer[c]) IN
       /\ emitted' = [emitted EXCEPT ![c] =
                          IF d.kind \in {"clear", "rest"} THEN Append(emitted[c], d.msg)
                          ELSE emitted[c]]
       /\ buffer' = [buffer EXCEPT ![c] =
                         IF d.kind = "rest" THEN Drop(buffer[c], d.cut)
                         ELSE IF d.kind = "wait" THEN buffer[c] ELSE <<>>]
       /\ pc' = [pc EXCEPT ![c] = IF d.kind = "rest" THEN "decode" ELSE "recv"]
    /\ UNCHANGED <<server_socket, main, now, shared>>
    /\ UNCHANGED <<pending, message, after, attempt, wake, reg, inc>>
    /\ UNCHANGED <<wire, forwarded, call, outcome, reason, accepted, fails, dispatched, pass,
                   snapshots>>

\* one pass of the inner loop, up to the call of process_message
Decode(c) ==
    /\ pc[c] = "decode"
    /\ LET d == DecodeStep(buffer[c]) IN
       IF d.kind \in {"clear", "rest"}
       THEN /\ message' = [message EXCEPT ![c] = d.msg]
            /\ after' = [after EXCEPT ![c] = [kind |-> d.kind, cut |-> d.cut]]
            /\ emitted' = [emitted EXCEPT ![c] = Append(emitted[c], d.msg)]
            /\ pc' = [pc EXCEPT ![c] = "process"]
            /\ UNCHANGED buffer
       ELSE /\ buffer' = [buffer EXCEPT ![c] = IF d.kind = "stop" THEN <<>> ELSE buffer[c]]
            /\ pc' = [pc EXCEPT ![c] = "recv"]
            /\ UNCHANGED <<message, after, emitted>>
    /\ UNCHANGED <<server_socket, main, now, shared>>
    /\ UNCHANGED <<pending, attempt, wake, reg, inc>>
    /\ UNCHANGED <<wire, forwarded, call, outcome, reason, accepted, fails, dispatched, pass, snapshots>>

\* process_message returns to handle_client, which assigns the buffer and
\* either breaks to recv ("clear") or loops ("rest")
Returned(c) ==
    /\ buffer' = [buffer EXCEPT ![c] =
                     IF after[c].kind = "clear" THEN <<>> ELSE Drop(buffer[c], after[c].cut)]
    /\ pc' = [pc EXCEPT ![c] = IF after[c].kind = "clear" THEN "recv" ELSE "decode"]
    /\ dispatched' = [dispatched EXCEPT ![c] = dispatched[c] + 1]
    /\ call' = [call EXCEPT ![c] = <<>>]
    /\ outcome' = [outcome EXCEPT ![c] = "none"]

----------------------------------------------------------------------------
(* process_message, forward_to_function and log_metrics.                   *)

\* json.loads(message): on success forward_to_function is entered, on a
\* JSONDecodeError the except branch increments messages_failed
ProcessMessage(c) ==
    /\ pc[c] = "process"
    /\ IF Loads(message[c]).ok
       THEN /\ attempt' = [attempt EXCEPT ![c] = 0]
            /\ call' = [call EXCEPT ![c] = <<>>]
            /\ forwarded' = [forwarded EXCEPT ![c] = Append(forwarded[c], message[c])]
            /\ pc' = [pc EXCEPT ![c] = "post"]
            /\ UNCHANGED <<inc, outcome>>
       ELSE /\ outcome' = [outcome EXCEPT ![c] = "ParseError"]
            /\ inc' = [inc EXCEPT ![c] = CounterOf("ParseError")]
            /\ pc' = [pc EXCEPT ![c] = "inc_read"]
            /\ UNCHANGED <<attempt, call, forwarded>>
    /\ UNCHANGED <<server_socket, main, now, shared>>
    /\ UNCHANGED <<pending, buffer, message, after, wake, reg>>
    /\ UNCHANGED <<wire, emitted, reason, accepted, fails, dispatched, pass, snapshots>>

\* one requests.post and what the loop does with its result; the network
\* fails at most F times
HttpAttempt(c, R, F) ==
    /\ pc[c] = "post"
    /\ \E res \in R :
         LET f == ForwardStep(attempt[c], res)
             out == IF f.next = "return" THEN Classify(res) ELSE "Unreachable"
         IN
         /\ res = NetFail => fails < F
         /\ fails' = IF res = NetFail THEN fails + 1 ELSE fails
         /\ IF f.next = "sleep"
            THEN /\ call' = [call EXCEPT ![c] = call[c] \o
                                <<[ev |-> "attempt", v |-> res], [ev |-> "sleep", v |-> f.delay]>>]
                 /\ wake' = [wake EXCEPT ![c] = now + f.delay]
                 /\ pc' = [pc EXCEPT ![c] = "sleep"]
                 /\ UNCHANGED <<inc, outcome>>
            ELSE /\ call' = [call EXCEPT ![c] = Append(call[c], [ev |-> "attempt", v |-> res])]
                 /\ outcome' = [outcome EXCEPT ![c] = out]
                 /\ inc' = [inc EXCEPT ![c] = CounterOf(out)]
                 /\ pc' = [pc EXCEPT ![c] = "inc_read"]
                 /\ UNCHANGED wake
    /\ UNCHANGED <<server_socket, main, now, shared>>
    /\ UNCHANGED <<pending, buffer, message, after, attempt, reg>>
    /\ UNCHANGED <<wire, emitted, forwarded, reason, accepted, dispatched, pass, snapshots>>

\* time.sleep returns, when the clock has reached wake at least; the loop
\* goes to its next attempt
SleepEnd(c) ==
    /\ pc[c] = "sleep"
    /\ now' = IF now < wake[c] THEN wake[c] ELSE now
    /\ attempt' = [attempt EXCEPT ![c] = attempt[c] + 1]
    /\ pc' = [pc EXCEPT ![c] = "post"]
    /\ UNCHANGED <<server_socket, main, shared, ghosts>>
    /\ UNCHANGED <<pending, buffer, message, after, wake, reg, inc>>

\* the read half of `self.messages_... += 1`
IncRead(c) ==
    /\ pc[c] = "inc_read"
    /\ reg' = [reg EXCEPT ![c] =
                  IF inc[c].ctr = "processed" THEN messages_processed ELSE messages_failed]
    /\ pc' = [pc EXCEPT ![c] = "inc_write"]
    /\ UNCHANGED <<server_socket, main, now, shared, ghosts>>
    /\ UNCHANGED <<pending, buffer, message, after, attempt, wake, inc>>

\* the write half; then log_metrics, or the return to handle_client
IncWrite(c) ==
    /\ pc[c] = "inc_write"
    /\ IF inc[c].ctr = "processed"
       THEN messages_processed' = reg[c] + 1 /\ UNCHANGED messages_failed
       ELSE messages_failed' = reg[c] + 1 /\ UNCHANGED messages_processed
    /\ IF inc[c].log
       THEN /\ pc' = [pc EXCEPT ![c] = "log_metrics"]
            /\ UNCHANGED <<buffer, dispatched>>
       ELSE Returned(c)
    /\ UNCHANGED <<server_socket, main, now, connections_handled, last_metrics_time>>
    /\ UNCHANGED <<pending, message, after, attempt, wake, reg, inc>>
    /\ UNCHANGED <<wire, emitted, forwarded, reason, accepted, fails, pass, snapshots>>
    /\ inc[c].log => UNCHANGED <<call, outcome>>

\* log_metrics up to the report: read the clock, compare, log the counters
LogMetrics(c) ==
    /\ pc[c] = "log_metrics"
    /\ IF IntervalElapsed(now, last_metrics_time)
       THEN /\ snapshots' = Append(snapshots,
                   [processed |-> messages_processed, failed |-> messages_failed,
                    connections |-> connections_handled, reset |-> FALSE])
            /\ reg' = [reg EXCEPT ![c] = now]
            /\ pc' = [pc EXCEPT ![c] = "reset"]
            /\ UNCHANGED <<buffer, dispatched, call, outcome>>
       ELSE /\ Returned(c)
            /\ UNCHANGED <<snapshots, reg>>
    /\ UNCHANGED <<server_socket, main, now, shared>>
    /\ UNCHANGED <<pending, message, after, attempt, wake, inc>>
    /\ UNCHANGED <<wire, emitted, forwarded, reason, accepted, fails, pass>>

\* log_metrics, "Reset counters"; then the return to handle_client
ResetMetrics(c) ==
    /\ pc[c] = "reset"
    /\ messages_processed' = 0
    /\ messages_failed' = 0
    /\ last_metrics_time' = reg[c]
    /\ snapshots' = Append(snapshots,
           [processed |-> messages_processed, failed |-> messages_failed,
            connections |-> connections_handled, reset |-> TRUE])
    /\ Returned(c)
    /\ UNCHANGED <<server_socket, main, now, connections_handled>>
    /\ UNCHANGED <<pending, message, after, attempt, wake, reg, inc>>
    /\ UNCHANGED <<wire, emitted, forwarded, reason, accepted, fails, pass>>

\* a metrics interval of time passes with no handler taking a step
Tick ==
    /\ now + metrics_interval <= MaxTime
    /\ now' = now + metrics_interval
    /\ UNCHANGED <<server_socket, main, pc, shared, locals, ghosts>>

----------------------------------------------------------------------------
(* Specifications.                                                         *)

Handler(c, R, F) ==
    \/ HandleStart(c) \/ HandleCount(c)
    \/ RecvData(c) \/ RecvEnd(c) \/ Decode(c)
    \/ ProcessMessage(c) \/ HttpAttempt(c, R, F) \/ SleepEnd(c)
    \/ IncRead(c) \/ IncWrite(c) \/ LogMetrics(c) \/ ResetMetrics(c)

\* C connections, peers writing byte streams of W, an endpoint answering in R,
\* a network failing at most F times
NextOf(C, W, R, F) ==
    \/ Start \/ Interrupt \/ Exit \/ Tick
    \/ \E c \in C : Accept(c, W)
    \/ \E c \in C : Handler(c, R, F)

\* several connections, short streams, few failures
Next == NextOf(Conns, SmallWires, {NetFail, 200, 400}, FewFails)
Spec == Init /\ [][Next]_vars

\* one connection, every stream of FramerWires cut at every offset, few failures
NextFramer == NextOf({1}, FramerWires, {NetFail, 200}, FewFails)
SpecFramer == Init /\ [][NextFramer]_vars

\* one connection, one or two records, every answer at every attempt
NextForward == NextOf({1}, ForwardWires, Statuses \cup {NetFail}, MaxFails)
SpecForward == Init /\ [][NextForward]_vars

\* one connection sending a record, and clients that connect and send nothing
NextCount ==
    \/ Start \/ Interrupt \/ Exit \/ Tick
    \/ Accept(1, SmallWires)
    \/ \E c \in Slots \ {1} : Accept(c, {<<>>})
    \/ \E c \in Slots : Handler(c, {NetFail, 200}, FewFails)
SpecCount == Init /\ [][NextCount]_vars

----------------------------------------------------------------------------
(* Properties of the frame decoder (SpecFramer).                           *)

IsPrefix(p, s) == Len(p) <= Len(s) /\ SubSeq(s, 1, Len(p)) = p

\* the messages handed to process_message since the last chunk was appended
Since(c) == SubSeq(emitted[c], pass[c].n + 1, Len(emitted[c]))

\* the buffer from its first "{"
FromBrace(buf) == Drop(buf, Find(buf))

\* incomplete: the parse fails because the text ends
Truncated(s) == LET e == Loads(s) IN ~e.ok /\ e.eof
\* malformed: the parse fails at a character, and it is not trailing data
Malformed(s) == LET e == Loads(s) IN ~e.ok /\ ~e.eof /\ e.msg # "Extra data"

RECURSIVE RecordsOf(_)
\* a text cut into the records it is a concatenation of, if it is one
RecordsOf(s) ==
    IF s = <<>> THEN [ok |-> TRUE, ps |-> <<>>]
    ELSE IF \E r \in Records : IsPrefix(r, s)
    THEN LET r == CHOOSE x \in Records : IsPrefix(x, s)
             t == RecordsOf(Drop(s, Len(r)))
         IN  [ok |-> t.ok, ps |-> IF t.ok THEN <<r>> \o t.ps ELSE <<>>]
    ELSE [ok |-> FALSE, ps |-> <<>>]

\* C1: when a peer writes one valid record, however its bytes are cut into
\* chunks, the handler does not stop on a chunk, hands over nothing but the
\* whole record, and has handed it over once all the bytes are read.
C1_EveryChunkingEmitsTheRecord ==
    \A c \in Conns : \A r \in Records :
        wire[c] = Utf8Encode(r) =>
            /\ reason[c] # "decode"
            /\ emitted[c] \in {<<>>, <<r>>}
            /\ (pending[c] = <<>> /\ pc[c] = "recv") => emitted[c] = <<r>>

\* C2: when a chunk leaves k >= 2 concatenated valid records in the buffer,
\* the decode pass hands over exactly these records, in wire order, and the
\* buffer is empty when the handler is back at recv.
C2_ConcatenatedRecords ==
    \A c \in Conns :
        LET rs == RecordsOf(pass[c].buf) IN
        (rs.ok /\ Len(rs.ps) >= 2) =>
            /\ IsPrefix(Since(c), rs.ps)
            /\ pc[c] = "recv" => (Since(c) = rs.ps /\ buffer[c] = <<>>)

C2_Witness ==
    /\ pc[1] = "recv"
    /\ pass[1] = [buf |-> Rec_a \o Rec_b, n |-> 0]
    /\ emitted[1] = <<Rec_a, Rec_b>>
    /\ buffer[1] = <<>>

\* C3: after a decode pass the retained buffer is never longer than
\* max_message_size, and no message longer than max_message_size is handed
\* to process_message.
C3_BufferCeiling ==
    \A c \in Conns :
        /\ pc[c] = "recv" => Len(buffer[c]) <= max_message_size
        /\ \A i \in 1..Len(emitted[c]) : Len(emitted[c][i]) <= max_message_size

\* C4: after a decode pass over a buffer that is malformed from its first
\* "{", the buffer is empty; and a valid record written after malformed text
\* has been handed over once all the bytes are read.
C4_MalformedDiscarded ==
    \A c \in Conns :
        /\ (/\ pc[c] = "recv"
            /\ Find(pass[c].buf) # -1
            /\ Malformed(FromBrace(pass[c].buf))) => buffer[c] = <<>>
        /\ \A r \in Records :
             (/\ wire[c] = Utf8Encode(Bad_x \o r)
              /\ pending[c] = <<>>
              /\ pc[c] = "recv") => \E i \in 1..Len(emitted[c]) : emitted[c][i] = r

\* C5: when a chunk leaves a buffer without "{", the decode pass hands over
\* nothing and the buffer is empty when the handler is back at recv; when it
\* leaves a valid record followed by text without "{", the pass hands over
\* the record alone and the buffer is empty as well.
C5_NoBraceDiscards ==
    \A c \in Conns :
        /\ Find(pass[c].buf) = -1 =>
              /\ Since(c) = <<>>
              /\ pc[c] \in {"idle", "start", "count", "decode", "recv", "closed", "killed"}
              /\ pc[c] = "recv" => buffer[c] = <<>>
        /\ \A r \in Records :
              (/\ pc[c] = "recv"
               /\ IsPrefix(r, pass[c].buf)
               /\ Len(pass[c].buf) > Len(r)
               /\ Find(Drop(pass[c].buf, Len(r))) = -1) =>
                  /\ buffer[c] = <<>>
                  /\ Len(Since(c)) = 1
                  /\ IsPrefix(r, Since(c)[1])

C5_Witness ==
    \E c \in Conns :
        /\ pc[c] = "recv"
        /\ pass[c].buf # <<>>
        /\ Find(pass[c].buf) = -1
        /\ buffer[c] = <<>>

\* C6: when a chunk leaves a buffer that is a truncated object from its
\* first "{", the decode pass hands over nothing, the buffer stays as the
\* chunk left it, and the handler goes back to recv.
C6_TruncatedWaits ==
    \A c \in Conns :
        (Find(pass[c].buf) # -1 /\ Truncated(FromBrace(pass[c].buf))) =>
            /\ buffer[c] = pass[c].buf
            /\ Since(c) = <<>>
            /\ pc[c] \in {"decode", "recv", "closed", "killed"}

C6_Witness ==
    \E c \in Conns :
        /\ pc[c] = "recv"
        /\ Find(pass[c].buf) # -1
        /\ Truncated(FromBrace(pass[c].buf))
        /\ buffer[c] = pass[c].buf
        /\ pending[c] # <<>>

----------------------------------------------------------------------------
(* Properties of forwarding and dispatch (SpecForward).                    *)

Attempt(res) == [ev |-> "attempt", v |-> res]
Sleep(d) == [ev |-> "sleep", v |-> d]
IsAttempt(e) == e.ev = "attempt"
IsFailure(e) == e.ev = "attempt" /\ e.v = NetFail

\* C7: a forward call makes at most 3 attempts and is over after the third;
\* when all attempts fail at network level there are exactly 3 of them with
\* sleeps of 1 and 2 between them and none after the third, and the failure
\* reaches process_message (Unreachable, counted as failed).
C7_RetryPolicy ==
    \A c \in Conns :
        LET attempts == SelectSeq(call[c], IsAttempt)
            failures == SelectSeq(call[c], IsFailure)
            exhausted == <<Attempt(NetFail), Sleep(1), Attempt(NetFail), Sleep(2),
                           Attempt(NetFail)>>
        IN  /\ Len(attempts) <= 3
            /\ Len(attempts) = 3 => pc[c] \notin {"post", "sleep"}
            /\ Len(failures) = 3 => (call[c] = exhausted /\ outcome[c] = "Unreachable")
            /\ outcome[c] = "Unreachable" => (call[c] = exhausted /\ inc[c].ctr = "failed")

C7_Witness ==
    \E c \in Conns :
        /\ outcome[c] = "Unreachable"
        /\ pc[c] = "inc_read"
        /\ Len(call[c]) = 5

\* C8: an attempt that receives a response is the last event of its forward
\* call, whatever the status; the dispatch is Delivered exactly for 200, 201
\* and 202 and Rejected for any other status.
C8_ResponseEndsCall ==
    \A c \in Conns : \A i \in 1..Len(call[c]) :
        (call[c][i].ev = "attempt" /\ call[c][i].v # NetFail) =>
            /\ i = Len(call[c])
            /\ pc[c] \notin {"post", "sleep"}
            /\ outcome[c] = IF call[c][i].v \in {200, 201, 202} THEN "Delivered" ELSE "Rejected"
            /\ inc[c].ctr = IF call[c][i].v \in {200, 201, 202} THEN "processed" ELSE "failed"

C8_Witness ==
    \E c \in Conns :
        /\ call[c] = <<Attempt(NetFail), Sleep(1), Attempt(202)>>
        /\ outcome[c] = "Delivered"
        /\ pc[c] = "inc_read"

\* C9: on a connection the messages are forwarded in the order they were
\* framed, at most one dispatch is in progress, a forward call with its
\* retries and sleeps is for the last framed message, and the handler is at
\* recv only when every framed message has been dispatched.
C9_SerialDispatch ==
    \A c \in Conns :
        /\ IsPrefix(forwarded[c], emitted[c])
        /\ Len(emitted[c]) - dispatched[c] \in {0, 1}
        /\ Len(emitted[c]) - Len(forwarded[c]) \in {0, 1}
        /\ pc[c] = "recv" => dispatched[c] = Len(emitted[c])
        /\ pc[c] \in {"post", "sleep"} =>
              (forwarded[c] = emitted[c] /\ dispatched[c] = Len(emitted[c]) - 1)

C9_Witness ==
    /\ pc[1] = "sleep"
    /\ emitted[1] = <<Rec_a, Rec_b>>
    /\ forwarded[1] = <<Rec_a, Rec_b>>
    /\ dispatched[1] = 1
    /\ pending[1] = <<>>

----------------------------------------------------------------------------
(* Properties of the shared counters (Spec).                               *)

RECURSIVE SumTo(_, _)
SumTo(f, n) == IF n = 0 THEN 0 ELSE f[n] + SumTo(f, n - 1)
TotalDispatched == SumTo(dispatched, MaxConns)

\* C10: with no handler in the middle of an increment and no metrics report
\* so far, connections_handled is the number of accepted connections and
\* processed + failed is the number of dispatched records.
C10_NoLostUpdate ==
    /\ (\A c \in Conns : pc[c] \notin {"start", "count", "killed"}) =>
          connections_handled = accepted
    /\ (/\ \A c \in Conns : pc[c] \in {"idle", "start", "count", "recv", "decode", "closed"}
        /\ snapshots = <<>>) =>
          messages_processed + messages_failed = TotalDispatched

----------------------------------------------------------------------------
(* Properties of the metrics report (Spec).                                *)

\* C11: the report and the reset of log_metrics are one atomic step: every
\* report is followed by its own reset before any other report, and the reset
\* clears exactly the values that were reported, so that no dispatch is
\* counted between the two and no interval is reported twice.
C11_AtomicSnapshot ==
    \A i \in 1..Len(snapshots) :
        /\ snapshots[i].reset = (i % 2 = 0)
        /\ snapshots[i].reset =>
              /\ snapshots[i].processed = snapshots[i - 1].processed
              /\ snapshots[i].failed = snapshots[i - 1].failed

\* C12: a dispatch that finishes when at least metrics_interval has passed
\* since the last reset logs a report and resets processed and failed,
\* whatever its outcome.
C12_AnyDispatchSnapshots ==
    [][\A c \in Conns :
         (dispatched'[c] = dispatched[c] + 1 /\ IntervalElapsed(now, last_metrics_time)) =>
             /\ Len(snapshots') > Len(snapshots)
             /\ messages_processed' = 0
             /\ messages_failed' = 0]_vars

\* C13: the reset of log_metrics sets processed and failed to zero, stores
\* the time it read in last_metrics_time and leaves connections_handled as it
\* is; and no step of the process makes connections_handled smaller.
C13_ResetKeepsConnections ==
    [][/\ \A c \in Slots :
            (pc[c] = "reset" /\ pc'[c] \in {"recv", "decode"}) =>
                /\ messages_processed' = 0
                /\ messages_failed' = 0
                /\ last_metrics_time' = reg[c]
                /\ connections_handled' = connections_handled
       /\ connections_handled' >= connections_handled]_vars

----------------------------------------------------------------------------
(* Properties of the counters on one connection (SpecForward).             *)

\* C14: on one connection, a call of log_metrics before the interval has
\* elapsed changes no counter; the increment of a dispatch adds one to
\* messages_processed alone when the outcome is Delivered and one to
\* messages_failed alone when it is Rejected, Unreachable or a parse failure
\* (which has made no HTTP attempt); no other step but the reset changes the
\* two counters; so, before any reset, processed + failed is the number of
\* records dispatched.
C14_OneCounterPerDispatch ==
    /\ [](snapshots = <<>> =>
            /\ pc[1] \notin {"log_metrics", "killed"} =>
                  messages_processed + messages_failed = dispatched[1]
            /\ pc[1] = "log_metrics" =>
                  messages_processed + messages_failed = dispatched[1] + 1)
    /\ CounterOf("ParseError") = [ctr |-> "failed", log |-> FALSE]
    /\ [][/\ (\A c \in Conns : pc[c] \notin {"inc_write", "reset"}) =>
                 UNCHANGED <<messages_processed, messages_failed>>
          /\ \A c \in Conns :
            /\ (pc[c] = "log_metrics" /\ ~IntervalElapsed(now, last_metrics_time)) =>
                  UNCHANGED shared
            /\ (pc[c] = "inc_write" /\ pc'[c] \notin {"inc_write", "killed"}) =>
                  /\ outcome[c] \in {"Delivered", "Rejected", "Unreachable", "ParseError"}
                  /\ outcome[c] = "Delivered" =>
                        /\ messages_processed' = messages_processed + 1
                        /\ messages_failed' = messages_failed
                  /\ outcome[c] # "Delivered" =>
                        /\ messages_failed' = messages_failed + 1
                        /\ messages_processed' = messages_processed
                  /\ outcome[c] = "ParseError" => call[c] = <<>>]_vars

\* a success and a failure have been counted, and nothing was reset
C14_Witness ==
    /\ dispatched[1] = 2
    /\ messages_processed = 1
    /\ messages_failed = 1
    /\ snapshots = <<>>
    /\ pc[1] = "recv"

----------------------------------------------------------------------------
(* Properties of the buffer and of the connection's end (SpecFramer).      *)

\* one incomplete JSON object and nothing else: the text starts with "{" and
\* its parse fails because the text ends
Incomplete(s) == s # <<>> /\ s[1] = "{" /\ Truncated(s)

\* C15: whenever the handler is back at recv after a decode pass, its buffer
\* is empty or is one incomplete JSON object and nothing else.
C15_BufferInvariant ==
    \A c \in Conns :
        pc[c] = "recv" => (buffer[c] = <<>> \/ Incomplete(buffer[c]))

\* C16: a handler leaves its read loop only because recv returned no byte,
\* timed out or raised a socket error; and when a dispatch returns, whatever
\* its outcome, the handler goes on in its loop (next decode pass or recv).
C16_FailuresKeepConnection ==
    /\ [](\A c \in Conns : pc[c] = "closed" => reason[c] \in {"eof", "timeout", "error"})
    /\ [][\A c \in Conns :
            dispatched'[c] > dispatched[c] => pc'[c] \in {"recv", "decode"}]_vars

----------------------------------------------------------------------------
(* Properties of connections side by side (Spec).                          *)

\* what belongs to the handler of connection c
HandlerState(c) ==
    <<pc[c], pending[c], buffer[c], message[c], after[c], attempt[c], wake[c], reg[c], inc[c],
      emitted[c], forwarded[c], dispatched[c], reason[c]>>

\* C17: a handler whose recv returns no byte, times out or raises a socket
\* error ends closed; that step changes nothing of any other handler, of the
\* main thread, of the listening socket or of the counters; a closed handler
\* reads and dispatches nothing more; and with a handler closed the accept
\* loop can still accept the next connection.
C17_ClosedIsLocal ==
    /\ [][\A c \in Conns :
            /\ (pc[c] = "recv" /\ pc'[c] = "closed") =>
                  /\ reason'[c] \in {"eof", "timeout", "error"}
                  /\ reason'[c] = "eof" => pending[c] = <<>>
                  /\ \A o \in Conns \ {c} : HandlerState(o)' = HandlerState(o)
                  /\ UNCHANGED <<main, server_socket, shared>>
            /\ pc[c] = "closed" => HandlerState(c)' = HandlerState(c)]_vars
    /\ [](\A c \in Conns :
            (pc[c] = "closed" /\ main = "accept" /\ accepted < MaxConns) =>
                ENABLED Accept(accepted + 1, SmallWires))

\* connection 1 has timed out; connection 2, accepted after that, is in a
\* retry sleep
C17_Witness ==
    /\ pc[1] = "closed"
    /\ reason[1] = "timeout"
    /\ emitted[1] = <<>>
    /\ pc[2] = "sleep"

\* C18: while a handler is in an HTTP attempt or in a retry sleep, every
\* other running handler has a step it can take (it reads when bytes are
\* pending, it frames, it dispatches, it posts), and the accept loop, when
\* it is listening, can accept the next connection.
C18_PerConnectionBackpressure ==
    \A c \in Conns :
        pc[c] \in {"post", "sleep"} =>
            /\ \A o \in Conns \ {c} :
                  /\ Running(o) => ENABLED Handler(o, {200}, 0)
                  /\ (pc[o] = "recv" /\ pending[o] # <<>>) => ENABLED RecvData(o)
                  /\ pc[o] = "decode" => ENABLED Decode(o)
                  /\ pc[o] = "process" => ENABLED ProcessMessage(o)
            /\ (main = "accept" /\ accepted < MaxConns) =>
                  ENABLED Accept(accepted + 1, SmallWires)

\* connection 1 is in the retry sleep of its first dispatch, connection 2
\* has dispatched its record
C18_Witness ==
    /\ pc[1] = "sleep"
    /\ dispatched[1] = 0
    /\ dispatched[2] = 1

\* C19: once shutdown has been called the listening socket is closed, and
\* no handler is stopped while it is still reading or dispatching: each one
\* runs until its own recv ends the connection.
C19_ShutdownDrains ==
    /\ main \in {"shutdown", "exited"} => server_socket = "closed"
    /\ \A c \in Conns : pc[c] # "killed"

----------------------------------------------------------------------------
(* What the framer hands to the dispatcher (SpecFramer).                   *)

\* C20: every message handed to process_message begins with "{" and is
\* accepted by json.loads; process_message never takes its JSONDecodeError
\* branch; from its json.loads it goes to forward_to_function, and it does
\* not return before an HTTP attempt has been made.
C20_FramedMessagesParse ==
    /\ [](\A c \in Conns :
            /\ \A i \in 1..Len(emitted[c]) :
                  /\ emitted[c][i] # <<>>
                  /\ emitted[c][i][1] = "{"
                  /\ Loads(emitted[c][i]).ok
            /\ outcome[c] # "ParseError"
            /\ pc[c] \notin {"process", "killed"} => forwarded[c] = emitted[c])
    /\ [][\A c \in Conns :
            /\ (pc[c] = "process" /\ pc'[c] \notin {"process", "killed"}) => pc'[c] = "post"
            /\ dispatched'[c] > dispatched[c] => SelectSeq(call[c], IsAttempt) # <<>>]_vars

\* two records came in one chunk: the first was cut off at the "Extra data"
\* position and dispatched, the second was handed over whole and has got its
\* response
C20_Witness ==
    /\ pass[1].buf = Rec_b \o Rec_a
    /\ emitted[1] = <<Rec_b, Rec_a>>
    /\ forwarded[1] = <<Rec_b, Rec_a>>
    /\ dispatched[1] = 1
    /\ call[1] = <<Attempt(200)>>
    /\ pc[1] = "inc_read"

====
